---- MODULE Spec2Model ----
(***************************************************************************)
(* Tool-calling conversation orchestrator of the blockchain CLI assistant. *)
(*                                                                         *)
(* Two programs of the repository share the tool handlers and the          *)
(* dispatcher executeFunction:                                             *)
(*   - the chat-session variant (src/src/cli.ts): startChat reads a line,  *)
(*     runChat drives the model <-> tool round trips over a Chat object;   *)
(*   - the stateless-history variant (src/unnamed/part_001), whose         *)
(*     executeFunction reads the arguments without a guard.                *)
(*                                                                         *)
(* The variable prog selects what a behaviour exercises: "chat" runs       *)
(* startChat/runChat of cli.ts, "history" runs startChat of part_001 from  *)
(* a chatHistory that earlier turns have left, "dispatch" applies          *)
(* executeFunction of either variant to one tool-call request drawn from   *)
(* AllCalls, "search" and "blocks" apply the handlers searchBlockchain and *)
(* getLatestBlocks of cli.ts to one argument and one response body,        *)
(* "debug" runs startChat/runChat of cli.ts twice side by side, with and   *)
(* without DEBUG, from one await to the next.                              *)
(***************************************************************************)
EXTENDS Integers, Sequences, FiniteSets, TLC

VARIABLES
    prog,           \* "chat": startChat of cli.ts; "history": startChat of the
                    \* stateless-history variant; "dispatch": one executeFunction call
    pc,             \* position of the single thread of control
    rounds,         \* let rounds of runChat
    response,       \* let response of runChat: the latest model response
    idx,            \* position of the for loop over candidate.content.parts
    callResults,    \* const callResults of the current loop iteration
    text,           \* let text of the current loop iteration
    pending,        \* the tool-call request whose handler awaits useApi
    sent,           \* the message of the chat.sendMessage in flight
    out,            \* lines printed since the latest model response arrived
                    \* (since the line was read, before the first one)
    returned,       \* value runChat returned
    outcome,        \* how the latest user turn ended
    classes,        \* class of every model response received in this turn
    requests,       \* chat.sendMessage calls made in this turn
    dispatchRounds, \* loop iterations of this turn that called executeFunction
    handlerCalls,   \* handler invocations made in this turn, up to MaxCounted
    queries,        \* useApi queries issued in this turn, up to MaxCounted
    unknownOnly,    \* no tool call dispatched in this turn named a declared tool
    spoke,          \* an assistant text, the notice or an error line was printed
                    \* in this turn
    userInput,      \* const userInput of startChat, until the first model
                    \* request of its turn settles
    chatHistory,    \* const chatHistory of the stateless-history variant
    turns,          \* lines read so far when prog = "history"
    erred,          \* some turn of this behaviour ended in the catch block
                    \* when prog = "history"
    dapi,           \* how the useApi query settles when prog = "dispatch",
                    \* "search" or "blocks"
    dres,           \* outcome of the executeFunction call when prog = "dispatch"
    arg,            \* the argument a handler running on its own is called with:
                    \* query of searchBlockchain, count of getLatestBlocks
    data,           \* response.data of the useApi reply, had with status 200
    result,         \* what the handler running on its own returned
    runs            \* when prog = "debug": the state of startChat/runChat in two
                    \* processes, indexed by their DEBUG, that read the same lines
                    \* and get the same model and data-service replies

vars == << prog, pc, rounds, response, idx, callResults, text, pending, sent, out,
           returned, outcome, classes, requests, dispatchRounds, handlerCalls,
           queries, unknownOnly, spoke, userInput, chatHistory, turns, erred, dapi, dres,
           arg, data, result, runs >>

\* Largest number of parts in one model response.
MaxParts == 2

\* while (rounds < 5), cli.ts:610
MaxRounds == 5

\* handlerCalls and queries count up to this many and then stay there.
MaxCounted == 2

\* Lines read in one behaviour of the stateless-history variant.
MaxTurns == 2

\* if (chatHistory.length > 40), part_001:464
HistoryLimit == 40

Undefined == "undefined"

-----------------------------------------------------------------------------
(* Tool registry: functionDeclarations, in declaration order.              *)

functionDeclarations ==
    << [name |-> "getAddressInfo",          properties |-> {"address"},          required |-> {"address"}],
       [name |-> "getAddressTransactions",  properties |-> {"address", "limit"}, required |-> {"address"}],
       [name |-> "getAddressTokenBalances", properties |-> {"address"},          required |-> {"address"}],
       [name |-> "getTokenInfo",            properties |-> {"tokenAddress"},     required |-> {"tokenAddress"}],
       [name |-> "getTransactionInfo",      properties |-> {"txHash"},           required |-> {"txHash"}],
       [name |-> "getLatestBlocks",         properties |-> {"count"},            required |-> {}],
       [name |-> "searchBlockchain",        properties |-> {"query"},            required |-> {"query"}],
       [name |-> "getNetworkStats",         properties |-> {},                   required |-> {}] >>

DeclaredNames == { functionDeclarations[i].name : i \in DOMAIN functionDeclarations }

Declaration(name) ==
    functionDeclarations[CHOOSE i \in DOMAIN functionDeclarations :
                            functionDeclarations[i].name = name]

\* Every parameter name some declaration mentions.
ParamKeys == UNION { functionDeclarations[i].properties : i \in DOMAIN functionDeclarations }

\* Names the model may send that no switch case matches.
UnknownNames == {"getBalance", "getaddressinfo", Undefined}

ToolNames == DeclaredNames \cup UnknownNames

-----------------------------------------------------------------------------
(* Tool-call requests.  args is the optional arguments mapping of a        *)
(* FunctionCall: absent (present = FALSE) or a mapping whose keys are      *)
(* given; the value supplied for key k is written k.                       *)

NoArgs == [present |-> FALSE, keys |-> {}]

Args(ks) == [present |-> TRUE, keys |-> ks]

ArgShapes == {NoArgs} \cup { Args(ks) : ks \in SUBSET ParamKeys }

Call(n, a, i) == [name |-> n, args |-> a, id |-> i]

NoCall == Call("", NoArgs, Undefined)

\* Every request the dispatcher is exercised with when prog = "dispatch".
AllCalls == { Call(n, a, Undefined) : n \in ToolNames, a \in ArgShapes }

\* The requests model responses are built from when prog = "chat": a
\* declared tool called without an arguments mapping (count is optional)
\* and without an id, and an undeclared tool called with both.
TurnCalls ==
    { Call("getLatestBlocks", NoArgs,            Undefined),
      Call("getBalance",      Args({"address"}), "id1") }

-----------------------------------------------------------------------------
(* Data service: one useApi query per handler invocation.  The query       *)
(* throws, or returns a status with a body.                                *)

ApiThrows == [throws |-> TRUE, status |-> 0]

ApiStatus(s) == [throws |-> FALSE, status |-> s]

\* if (response.status !== 200)
StatusOk == 200

\* if (error.status === 429): the rate-limit status of the data service
StatusRateLimited == 429

ApiOutcomes == {ApiThrows, ApiStatus(StatusOk), ApiStatus(StatusRateLimited)}

-----------------------------------------------------------------------------
(* Tool results.                                                           *)

NoResult == [kind |-> "none", tool |-> "", argv |-> <<>>, status |-> 0]

\* `Unknown function: ${name}`
UnknownResult(name) == [kind |-> "unknown", tool |-> name, argv |-> <<>>, status |-> 0]

\* `Error: ${error.message}` of a handler's catch block
CaughtResult == [kind |-> "caught", tool |-> "", argv |-> <<>>, status |-> 0]

\* `Error fetching ...: ${response.status}`
StatusResult(h, s) == [kind |-> "status", tool |-> h, argv |-> <<>>, status |-> s]

\* the structured record a handler builds from a 200 response
DataResult(h, argv) == [kind |-> "data", tool |-> h, argv |-> argv, status |-> StatusOk]

IsErrorResult(r) == r.kind \in {"unknown", "caught", "status"}

HandlerWithoutStatusCheck(h, argv, api) ==
    IF api.throws THEN CaughtResult ELSE DataResult(h, argv)

RetryOnFailure(api) == IF api.throws \/ api.status # StatusOk THEN 2 ELSE 1

\* useApi calls one handler invocation makes: the single await useApi of
\* its try block, whatever the query's outcome.
QueriesMade(api) == 1

\* Body shared by the eight handlers: try { useApi; status check; build }
\* catch.  A 200 body whose record construction throws lands in the same
\* catch block as a query that throws.
Handler(h, argv, api) ==
    IF api.throws THEN CaughtResult
    ELSE IF api.status # StatusOk THEN StatusResult(h, api.status)
    ELSE DataResult(h, argv)

-----------------------------------------------------------------------------
(* Dispatcher.                                                             *)

SwappedHandlers ==
    << [label |-> "getAddressInfo",          handler |-> "getAddressInfo",          reads |-> <<"address">>],
       [label |-> "getAddressTransactions",  handler |-> "getAddressTokenBalances", reads |-> <<"address", "limit">>],
       [label |-> "getAddressTokenBalances", handler |-> "getAddressTransactions",  reads |-> <<"address">>],
       [label |-> "getTokenInfo",            handler |-> "getTokenInfo",            reads |-> <<"tokenAddress">>],
       [label |-> "getTransactionInfo",      handler |-> "getTransactionInfo",      reads |-> <<"txHash">>],
       [label |-> "getLatestBlocks",         handler |-> "getLatestBlocks",         reads |-> <<"count">>],
       [label |-> "searchBlockchain",        handler |-> "searchBlockchain",        reads |-> <<"query">>],
       [label |-> "getNetworkStats",         handler |-> "getNetworkStats",         reads |-> <<>>] >>

\* switch (name) of executeFunction in cli.ts: case labels, the handler
\* each case calls and the argument properties it reads, in order.
SwitchCases ==
    << [label |-> "getAddressInfo",          handler |-> "getAddressInfo",          reads |-> <<"address">>],
       [label |-> "getAddressTransactions",  handler |-> "getAddressTransactions",  reads |-> <<"address", "limit">>],
       [label |-> "getAddressTokenBalances", handler |-> "getAddressTokenBalances", reads |-> <<"address">>],
       [label |-> "getTokenInfo",            handler |-> "getTokenInfo",            reads |-> <<"tokenAddress">>],
       [label |-> "getTransactionInfo",      handler |-> "getTransactionInfo",      reads |-> <<"txHash">>],
       [label |-> "getLatestBlocks",         handler |-> "getLatestBlocks",         reads |-> <<"count">>],
       [label |-> "searchBlockchain",        handler |-> "searchBlockchain",        reads |-> <<"query">>],
       [label |-> "getNetworkStats",         handler |-> "getNetworkStats",         reads |-> <<>>] >>

\* switch (name) of executeFunction in the stateless-history variant.
SwitchCasesH ==
    << [label |-> "getAddressInfo",          handler |-> "getAddressInfo",          reads |-> <<"address">>],
       [label |-> "getAddressTransactions",  handler |-> "getAddressTransactions",  reads |-> <<"address", "limit">>],
       [label |-> "getAddressTokenBalances", handler |-> "getAddressTokenBalances", reads |-> <<"address">>],
       [label |-> "getTokenInfo",            handler |-> "getTokenInfo",            reads |-> <<"tokenAddress">>],
       [label |-> "getTransactionInfo",      handler |-> "getTransactionInfo",      reads |-> <<"txHash">>],
       [label |-> "getLatestBlocks",         handler |-> "getLatestBlocks",         reads |-> <<"count">>],
       [label |-> "searchBlockchain",        handler |-> "searchBlockchain",        reads |-> <<"query">>],
       [label |-> "getNetworkStats",         handler |-> "getNetworkStats",         reads |-> <<>>] >>

DefaultFallsIntoLastCase(cases, name) ==
    IF \E i \in DOMAIN cases : cases[i].label = name
    THEN CHOOSE i \in DOMAIN cases : cases[i].label = name
    ELSE Len(cases)

\* Index of the case a name selects, 0 for default.
CaseIndex(cases, name) ==
    IF \E i \in DOMAIN cases : cases[i].label = name
    THEN CHOOSE i \in DOMAIN cases : cases[i].label = name
    ELSE 0

\* args.k : the supplied value, or undefined for a key the mapping lacks.
ReadArg(args, k) == IF k \in args.keys THEN k ELSE Undefined

\* Reading a property of an absent (undefined) mapping is a TypeError.
ReadThrows(args, reads) == ~args.present /\ Len(reads) > 0

\* Outcome of one dispatch: threw, or returned result; handler names the
\* handler that was invoked ("none" if none was), queries counts useApi calls.
Returned(r, h, q) == [threw |-> FALSE, result |-> r, handler |-> h, queries |-> q]

Threw == [threw |-> TRUE, result |-> NoResult, handler |-> "none", queries |-> 0]

Dispatch(cases, name, args, api) ==
    LET c == CaseIndex(cases, name) IN
    IF c = 0 THEN Returned(UnknownResult(name), "none", 0)
    ELSE IF ReadThrows(args, cases[c].reads) THEN Threw
    ELSE Returned(Handler(cases[c].handler,
                          [j \in DOMAIN cases[c].reads |-> ReadArg(args, cases[c].reads[j])],
                          api),
                  cases[c].handler, QueriesMade(api))

UnguardedArgs(args) == args

\* const safeArgs = args as Record<string, any> || {};
SafeArgs(args) == IF args.present THEN args ELSE Args({})

\* executeFunction of the chat-session variant.
executeFunction(functionCall, api) ==
    Dispatch(SwitchCases, functionCall.name, SafeArgs(functionCall.args), api)

\* executeFunction of the stateless-history variant: args is read as is.
executeFunctionH(functionCall, api) ==
    Dispatch(SwitchCasesH, functionCall.name, functionCall.args, api)

-----------------------------------------------------------------------------
(* Model responses: the first candidate that has content.parts, if any.    *)

\* Text segments are sequences of characters; the empty one is falsy.
Texts == { <<"a">>, <<"b">> }

TextPart(t) == [text |-> t, hasCall |-> FALSE, functionCall |-> NoCall]

CallPart(c) == [text |-> <<>>, hasCall |-> TRUE, functionCall |-> c]

\* A part with neither text nor a function call (or with text "").
BlankPart == TextPart(<<>>)

Parts == { TextPart(t) : t \in Texts } \cup {BlankPart} \cup { CallPart(c) : c \in TurnCalls }

SeqsUpTo(S, n) == UNION { [1..k -> S] : k \in 0..n }

NoCandidate == [hasCandidate |-> FALSE, parts |-> <<>>]

Candidate(ps) == [hasCandidate |-> TRUE, parts |-> ps]

Responses == {NoCandidate} \cup { Candidate(ps) : ps \in SeqsUpTo(Parts, MaxParts) }

IsTextPart(p) == Len(p.text) > 0

IsCallPart(p) == ~IsTextPart(p) /\ p.hasCall

RECURSIVE ConcatText(_)
ConcatText(ps) ==
    IF ps = <<>> THEN <<>> ELSE Head(ps).text \o ConcatText(Tail(ps))

HasCalls(resp) == resp.hasCandidate /\ \E i \in DOMAIN resp.parts : IsCallPart(resp.parts[i])

HasText(resp) == resp.hasCandidate /\ \E i \in DOMAIN resp.parts : IsTextPart(resp.parts[i])

\* "none": no candidate; "calls": at least one tool call; "text": no tool
\* call and non-empty text; "empty": neither.
Class(resp) ==
    IF ~resp.hasCandidate THEN "none"
    ELSE IF HasCalls(resp) THEN "calls"
    ELSE IF HasText(resp) THEN "text"
    ELSE "empty"

-----------------------------------------------------------------------------
(* Front end and messages.                                                 *)

Lines == {"exit", "EXIT", "Exit", " exit", "", "latest 3 blocks"}

CaseSensitive(s) == s

\* String.prototype.toLowerCase on the lines above.
toLowerCase(s) ==
    CASE s = "EXIT" -> "exit"
      [] s = "Exit" -> "exit"
      [] OTHER -> s

NoMessage == [kind |-> "none", text |-> "", parts |-> <<>>]

UserMessage(line) == [kind |-> "user", text |-> line, parts |-> <<>>]

ResultsInReverse(crs) ==
    [kind |-> "functionResponses", text |-> "",
     parts |-> [i \in DOMAIN crs |->
                  [name   |-> crs[Len(crs) + 1 - i].call.name,
                   id     |-> crs[Len(crs) + 1 - i].call.id,
                   result |-> crs[Len(crs) + 1 - i].result]]]

ResultsWithoutId(crs) ==
    [kind |-> "functionResponses", text |-> "",
     parts |-> [i \in DOMAIN crs |->
                  [name |-> crs[i].call.name, id |-> Undefined, result |-> crs[i].result]]]

\* callResults.map(cr => ({functionResponse: {name, id, response: {result}}}))
FunctionResponses(crs) ==
    [kind |-> "functionResponses", text |-> "",
     parts |-> [i \in DOMAIN crs |->
                  [name |-> crs[i].call.name, id |-> crs[i].call.id, result |-> crs[i].result]]]

Printed(tag, t) == [tag |-> tag, text |-> t]

ThinkingLine == Printed("thinking", <<>>)

GoodbyeLine == Printed("goodbye", <<>>)

AssistantLine(t) == Printed("assistant", t)

\* console.log(`No response from AI`)
NoticeLine == Printed("noResponse", <<>>)

\* console.error of the catch block of startChat
ErrorLine == Printed("error", <<>>)

\* console.log(`Executing: ${functionCall.name}...`)
ExecutingLine(name) == Printed("executing", <<name>>)

NoReturn == [defined |-> FALSE, text |-> <<>>]

ReturnText(t) == [defined |-> TRUE, text |-> t]

-----------------------------------------------------------------------------
(* chatHistory of the stateless-history variant.                           *)

\* chatHistory.push({role: 'user', parts: [{text: userInput}]})
UserEntry(line) ==
    [role |-> "user", kind |-> "text", line |-> line, text |-> <<>>, parts |-> <<>>]

\* chatHistory.push({role: 'model', parts: functionCalls.map(fc => ({functionCall: fc}))})
ModelCallsEntry(fcs) ==
    [role |-> "model", kind |-> "functionCall", line |-> "", text |-> <<>>, parts |-> fcs]

\* chatHistory.push({role: 'user', parts: functionResults.map(fr => ({functionResponse: ...}))})
ResultsEntry(frs) ==
    [role |-> "user", kind |-> "functionResponse", line |-> "", text |-> <<>>, parts |-> frs]

TextEntryAsUser(t) ==
    [role |-> "user", kind |-> "text", line |-> "", text |-> t, parts |-> <<>>]

\* chatHistory.push({role: 'model', parts: [{text: assistantMessage}]})
ModelTextEntry(t) ==
    [role |-> "model", kind |-> "text", line |-> "", text |-> t, parts |-> <<>>]

\* JSON.stringify(result, null, 2)
Stringify(r) == [json |-> r]

\* functionResults.push({name: functionCall.name, result: JSON.stringify(...)})
FunctionResult(fc, r) == [name |-> fc.name, result |-> Stringify(r)]

\* response.functionCalls: the function calls of the response, in order.
functionCalls(resp) ==
    IF resp.hasCandidate
    THEN LET cs == SelectSeq(resp.parts, IsCallPart)
         IN [i \in DOMAIN cs |-> cs[i].functionCall]
    ELSE <<>>

NoResponseGenerated == <<"No response generated">>

\* response.text || 'No response generated'
AssistantMessage(resp) ==
    IF resp.hasCandidate /\ Len(ConcatText(resp.parts)) > 0
    THEN ConcatText(resp.parts)
    ELSE NoResponseGenerated

KeepOldest(h) == IF Len(h) > HistoryLimit THEN SubSeq(h, 1, HistoryLimit) ELSE h

\* if (chatHistory.length > 40) chatHistory.splice(0, chatHistory.length - 40)
TrimHistory(h) ==
    IF Len(h) > HistoryLimit THEN SubSeq(h, Len(h) - HistoryLimit + 1, Len(h)) ELSE h

LatestEntryOnly(h) ==
    [kind |-> "contents", text |-> "", parts |-> SubSeq(h, Len(h), Len(h))]

\* contents: chatHistory of a generateContent request
Contents(h) == [kind |-> "contents", text |-> "", parts |-> h]

\* The requests the model responses of this variant are built from: an
\* undeclared tool, a declared tool with its argument, and a declared tool
\* without an arguments mapping.
HistoryResponses ==
    { NoCandidate,
      Candidate(<<TextPart(<<"a">>)>>),
      Candidate(<<CallPart(Call("getBalance", Args({"address"}), Undefined)),
                  CallPart(Call("getAddressInfo", Args({"address"}), Undefined))>>),
      Candidate(<<CallPart(Call("getLatestBlocks", NoArgs, Undefined))>>) }

\* What one earlier user turn with a tool call left in chatHistory.
PastToolTurn ==
    LET fc == Call("getAddressInfo", Args({"address"}), Undefined)
    IN << UserEntry("latest 3 blocks"),
          ModelCallsEntry(<<fc>>),
          ResultsEntry(<<FunctionResult(fc, executeFunctionH(fc, ApiStatus(StatusOk)).result)>>),
          ModelTextEntry(<<"a">>) >>

RECURSIVE Repeat(_, _)
Repeat(s, n) == IF n = 0 THEN <<>> ELSE s \o Repeat(s, n - 1)

\* The histories a behaviour starts from: the empty one of a new process,
\* and those that earlier tool turns have filled to within one turn of the
\* limit.
PastHistories ==
    { h \in { Repeat(PastToolTurn, n) : n \in 0..(HistoryLimit \div Len(PastToolTurn)) } :
        Len(h) = 0 \/ Len(h) + Len(PastToolTurn) >= HistoryLimit }

-----------------------------------------------------------------------------
(* The handlers searchBlockchain and getLatestBlocks of cli.ts, with the   *)
(* records they build from response.data.                                  *)

\* results.slice(0, 10), cli.ts:411
DisplayLimit == 10

\* truncated: results.length > 10, cli.ts:508
TruncatedAbove == 10

\* getLatestBlocks(count: number = 5), cli.ts:352
DefaultCount == 5

\* 'Number of latest blocks to retrieve (default: 5, max: 50)', cli.ts:110
DeclaredMaxCount == 50

\* Items of one kind that follow one another at most this often in a
\* search response.
MaxMatches == 2

\* Items that follow the last ens_domain or address item of a search
\* response.
MaxTail == 1

\* Blocks in one response of the data service.
MaxBlocks == 51

Null == "null"

Min(S) == CHOOSE x \in S : \A y \in S : x <= y

\* A relative index of Array.prototype.slice: negative counts from the end.
RelativeIndex(k, len) ==
    IF k < 0 THEN (IF len + k < 0 THEN 0 ELSE len + k)
    ELSE IF k > len THEN len ELSE k

\* Array.prototype.slice(start, end)
slice(s, start, end) ==
    LET from == RelativeIndex(start, Len(s))
        to   == RelativeIndex(end, Len(s))
    IN  IF from < to THEN SubSeq(s, from + 1, to) ELSE <<>>

\* String.prototype.endsWith, strings being sequences of characters.
endsWith(str, suffix) ==
    /\ Len(str) >= Len(suffix)
    /\ SubSeq(str, Len(str) - Len(suffix) + 1, Len(str)) = suffix

DotEth == << ".", "e", "t", "h" >>

\* Values of the query argument.
Queries ==
    { << "a", ".", "e", "t", "h" >>,
      << ".", "e", "t", "h", "s" >>,
      << "e", "t", "h" >>,
      << >> }

\* a || b of two strings, the empty string standing for an absent property
OrElse(a, b) == IF a # "" THEN a ELSE b

\* One item of data.items of a /search response.
Item(t, hash, addr) == [type |-> t, address_hash |-> hash, address |-> addr]

TokenItem == Item("token", "", "0xT")

\* ens_domain and address items: with both address properties, with the
\* second only, with none.
EnsItems ==
    { Item("ens_domain", "0xH", "0xA"),
      Item("address",    "",    "0xB"),
      Item("ens_domain", "",    "") }

\* response.data: items may be missing from the body.
NoItems == [present |-> FALSE, items |-> <<>>]

Items(s) == [present |-> TRUE, items |-> s]

\* Bodies of a /search response: token items, then up to MaxMatches
\* ens_domain or address items, then up to MaxTail token items.
SearchData ==
    {NoItems} \cup
    { Items([i \in 1..k |-> TokenItem] \o m \o [i \in 1..t |-> TokenItem]) :
        k \in {0, DisplayLimit - 1, DisplayLimit},
        m \in UNION { [1..len -> EnsItems] : len \in 0..MaxMatches },
        t \in 0..MaxTail }

\* The record limitedResults.map builds from one item.
ProcessedResult(item) ==
    [type    |-> item.type,
     address |-> IF item.type \in {"address", "ens_domain", "token"}
                 THEN OrElse(item.address_hash, item.address)
                 ELSE Undefined]

AnyItemWithAddress(item) == OrElse(item.address_hash, item.address) # ""

\* The predicate of limitedResults.find.
IsEnsResult(item) ==
    /\ item.type = "ens_domain" \/ item.type = "address"
    /\ OrElse(item.address_hash, item.address) # ""

searchBlockchain(query, body, api) ==
    IF api.throws THEN CaughtResult
    ELSE IF api.status # StatusOk THEN StatusResult("searchBlockchain", api.status)
    ELSE
        LET results          == IF body.present THEN body.items ELSE <<>>
            limitedResults   == slice(results, 0, DisplayLimit)
            processedResults == [i \in DOMAIN limitedResults |->
                                    ProcessedResult(limitedResults[i])]
            found            == { i \in DOMAIN limitedResults :
                                    IsEnsResult(limitedResults[i]) }
            resolvedAddress  ==
                IF endsWith(query, DotEth) /\ found # {}
                THEN OrElse(limitedResults[Min(found)].address_hash,
                            limitedResults[Min(found)].address)
                ELSE Null
        IN  [kind             |-> "search",
             query            |-> query,
             resultsCount     |-> Len(results),
             displayedResults |-> Len(processedResults),
             results          |-> processedResults,
             resolvedAddress  |-> resolvedAddress,
             truncated        |-> Len(results) > TruncatedAbove]

\* The count argument of a getLatestBlocks request: absent, or a number.
NoCount == [present |-> FALSE, value |-> 0]

Count(v) == [present |-> TRUE, value |-> v]

Counts == {NoCount} \cup { Count(v) : v \in (-1..2) \cup {DeclaredMaxCount + 1} }

\* Bodies of a /blocks response: n blocks, latest first.
BlocksData == {NoItems} \cup { Items([i \in 1..n |-> [height |-> i]]) : n \in 0..MaxBlocks }

\* The record blocks.map builds from one block.
BlockRecord(block) == [number |-> block.height]

getLatestBlocks(c, body, api) ==
    IF api.throws THEN CaughtResult
    ELSE IF api.status # StatusOk THEN StatusResult("getLatestBlocks", api.status)
    ELSE
        LET count  == IF c.present THEN c.value ELSE DefaultCount
            blocks == IF body.present THEN slice(body.items, 0, count) ELSE <<>>
        IN  [kind    |-> "blocks",
             records |-> [i \in DOMAIN blocks |-> BlockRecord(blocks[i])]]

-----------------------------------------------------------------------------
(* startChat and runChat of cli.ts as a function of the DEBUG setting:     *)
(* what one process does between two awaits, st being its state and        *)
(* st.console the lines it printed since the latest await settled.         *)

\* console.log(`DEBUG: ${message}`)
DebugLine(message) == Printed("debug", <<message>>)

\* console.log('DATA:', JSON.stringify(data, null, 2))
DataLine(message) == Printed("debugData", <<message>>)

DebugClearsConsole(enabled, o, message, hasData) ==
    IF enabled THEN <<DebugLine(message)>> ELSE o

\* debug(message, data) called after the lines o have been printed;
\* hasData: data !== undefined.
debug(enabled, o, message, hasData) ==
    IF enabled
    THEN IF hasData THEN o \o <<DebugLine(message), DataLine(message)>>
                    ELSE Append(o, DebugLine(message))
    ELSE o

\* Model responses given to the two processes: no candidate, no parts, a
\* text, a text and a call of an undeclared tool, a call of a declared
\* tool, and a blank part, a call of a declared tool and a text.
DebugResponses ==
    { NoCandidate,
      Candidate(<<>>),
      Candidate(<< TextPart(<<"a">>) >>),
      Candidate(<< TextPart(<<"a">>), CallPart(Call("getBalance", Args({"address"}), "id1")) >>),
      Candidate(<< CallPart(Call("getLatestBlocks", NoArgs, Undefined)) >>),
      Candidate(<< BlankPart, CallPart(Call("getLatestBlocks", NoArgs, Undefined)),
                   TextPart(<<"b">>) >>) }

IdleRun ==
    [pc |-> "idle", rounds |-> 0, response |-> NoCandidate, idx |-> 0,
     callResults |-> <<>>, text |-> <<>>, pending |-> NoCall, sent |-> NoMessage,
     console |-> <<>>, returned |-> NoReturn]

\* startChat up to the first rl.question.
StartedRun(enabled) ==
    [IdleRun EXCEPT
        !.pc = "prompt",
        !.console = debug(enabled,
                          IF enabled THEN <<DebugLine("DEBUG MODE ENABLED")>> ELSE <<>>,
                          "Chat loop started", FALSE)]

-----------------------------------------------------------------------------
(* Initial states.                                                         *)

InitChat ==
    /\ prog = "chat"
    /\ pc = "prompt"
    /\ pending = NoCall
    /\ chatHistory = <<>>

InitHistory ==
    /\ prog = "history"
    /\ pc = "prompt"
    /\ pending = NoCall
    /\ chatHistory \in PastHistories

InitDispatch ==
    /\ prog = "dispatch"
    /\ pc = "dispatch"
    /\ pending \in AllCalls
    /\ chatHistory = <<>>

InitSearch ==
    /\ prog = "search"
    /\ pc = "call"
    /\ pending = NoCall
    /\ chatHistory = <<>>
    /\ arg \in Queries
    /\ data \in SearchData

InitBlocks ==
    /\ prog = "blocks"
    /\ pc = "call"
    /\ pending = NoCall
    /\ chatHistory = <<>>
    /\ arg \in Counts
    /\ data \in BlocksData

InitHandlerIdle ==
    /\ arg = NoCount
    /\ data = NoItems

InitDebug ==
    /\ prog = "debug"
    /\ pc = "runs"
    /\ pending = NoCall
    /\ chatHistory = <<>>
    /\ runs = [enabled \in BOOLEAN |-> StartedRun(enabled)]

InitOneRun == runs = [enabled \in BOOLEAN |-> IdleRun]

Init ==
    /\ \/ (InitChat \/ InitDispatch \/ InitHistory) /\ InitHandlerIdle /\ InitOneRun
       \/ InitSearch /\ InitOneRun
       \/ InitBlocks /\ InitOneRun
       \/ InitDebug /\ InitHandlerIdle
    /\ result = NoResult
    /\ rounds = 0
    /\ response = NoCandidate
    /\ idx = 0
    /\ callResults = <<>>
    /\ text = <<>>
    /\ sent = NoMessage
    /\ out = <<>>
    /\ returned = NoReturn
    /\ outcome = "none"
    /\ classes = <<>>
    /\ requests = 0
    /\ dispatchRounds = 0
    /\ handlerCalls = 0
    /\ queries = 0
    /\ unknownOnly = TRUE
    /\ spoke = FALSE
    /\ userInput = Undefined
    /\ turns = 0
    /\ erred = FALSE
    /\ dapi = ApiThrows
    /\ dres = Returned(NoResult, "none", 0)

-----------------------------------------------------------------------------
(* startChat and runChat of the chat-session variant.                      *)

\* One more handler invocation, or one more query, observed in this turn.
Counted(n) == IF n < MaxCounted THEN n + 1 ELSE n

locals == << rounds, response, idx, callResults, text, pending >>

counters == << classes, requests, dispatchRounds, handlerCalls, queries, unknownOnly >>

handlerIO == << arg, data, result >>

harness == << dapi, dres, handlerIO, runs >>

history == << chatHistory, turns, erred >>

ExitOnError ==
    /\ out' = Append(out, ErrorLine)
    /\ spoke' = TRUE
    /\ outcome' = "error"
    /\ returned' = NoReturn
    /\ sent' = NoMessage
    /\ pc' = "exited"

\* An exception leaves runChat and reaches the catch block of startChat,
\* which prints an error line; the while loop then prompts again.
CatchInStartChat ==
    /\ out' = Append(out, ErrorLine)
    /\ spoke' = TRUE
    /\ outcome' = "error"
    /\ returned' = NoReturn
    /\ sent' = NoMessage
    /\ pc' = "prompt"

NoticeAndText ==
    /\ out' = Append(out, NoticeLine)
    /\ spoke' = TRUE
    /\ outcome' = "notice"
    /\ returned' = ReturnText(ConcatText(response.parts))
    /\ pc' = "prompt"

\* Falling out of the while loop of runChat: the notice, no return value.
ReachedMaximumRounds ==
    /\ out' = Append(out, NoticeLine)
    /\ spoke' = TRUE
    /\ outcome' = "notice"
    /\ returned' = NoReturn
    /\ pc' = "prompt"

AcceptsInputAnytime == pc # "exited"

\* await new Promise(resolve => rl.question('You: ', resolve)): a line is
\* read only where the while loop of startChat awaits it.
AwaitingInput == pc = "prompt"

\* rl.question resolves with a line: exit, or start a user turn with the
\* first chat.sendMessage of runChat.  The locals of runChat come to life
\* when that request settles; rounds and outcome keep what the previous
\* turn left until then.
UserInput(line) ==
    /\ prog = "chat"
    /\ AwaitingInput
    /\ userInput' = line
    /\ spoke' = FALSE
    /\ response' = NoCandidate
    /\ idx' = 0
    /\ callResults' = <<>>
    /\ text' = <<>>
    /\ pending' = NoCall
    /\ returned' = NoReturn
    /\ classes' = <<>>
    /\ dispatchRounds' = 0
    /\ handlerCalls' = 0
    /\ queries' = 0
    /\ unknownOnly' = TRUE
    /\ IF toLowerCase(line) = "exit"
       THEN /\ out' = <<GoodbyeLine>>
            /\ sent' = NoMessage
            /\ requests' = 0
            /\ pc' = "exited"
       ELSE /\ out' = <<ThinkingLine>>
            /\ sent' = UserMessage(line)
            /\ requests' = 1
            /\ pc' = "sendInitial"
    /\ UNCHANGED << prog, rounds, outcome, harness, history >>

CarriedRounds(r) == r

\* let rounds = 0, at the start of every runChat call
InitialRounds(r) == 0

\* chat.sendMessage resolves with a model response, any of Responses.
ModelRespond ==
    /\ prog = "chat"
    /\ pc \in {"sendInitial", "sendResults"}
    /\ response' \in Responses
    /\ classes' = Append(classes, Class(response'))
    /\ rounds' = IF pc = "sendInitial" THEN InitialRounds(rounds) ELSE rounds
    /\ outcome' = "none"
    /\ userInput' = Undefined
    /\ sent' = NoMessage
    /\ out' = <<>>
    /\ pc' = "loop"
    /\ UNCHANGED << prog, idx, callResults, text, pending, returned,
                    requests, dispatchRounds, handlerCalls, queries, unknownOnly,
                    spoke, harness, history >>

\* chat.sendMessage rejects.
ModelFail ==
    /\ prog = "chat"
    /\ pc \in {"sendInitial", "sendResults"}
    /\ CatchInStartChat
    /\ userInput' = Undefined
    /\ UNCHANGED << prog, locals, counters, harness, history >>

BudgetOfFour(r) == r < MaxRounds - 1

BudgetAllowsSeven(r) == r <= MaxRounds

\* while (rounds < 5)
LoopCondition(r) == r < MaxRounds

\* Loop test, rounds++, candidate lookup and the declarations that open an
\* iteration.
LoopHead ==
    /\ prog = "chat"
    /\ pc = "loop"
    /\ IF LoopCondition(rounds)
       THEN /\ rounds' = rounds + 1
            /\ IF ~response.hasCandidate
               THEN /\ ReachedMaximumRounds
                    /\ UNCHANGED << idx, callResults, text >>
               ELSE /\ idx' = 1
                    /\ callResults' = <<>>
                    /\ text' = <<>>
                    /\ pc' = "parts"
                    /\ UNCHANGED << out, outcome, returned, spoke >>
       ELSE /\ ReachedMaximumRounds
            /\ UNCHANGED << rounds, idx, callResults, text >>
    /\ UNCHANGED << prog, response, pending, sent, counters, userInput, harness, history >>

OverwriteText(t, segment) == segment

\* text += part.text
AppendText(t, segment) == t \o segment

ReturnsNothing(t) == NoReturn

\* else if (text) { return text; } else { return }
ReturnValue(t) == IF Len(t) > 0 THEN ReturnText(t) ELSE NoReturn

AtPart == pc = "parts" /\ idx <= Len(response.parts)

AccumulateOnly(o, segment) == o

\* console.log(`Assistant:\n${part.text}`)
PrintSegment(o, segment) == Append(o, AssistantLine(segment))

\* if (part.text): print the segment and accumulate it.
PartText ==
    /\ prog = "chat"
    /\ AtPart
    /\ IsTextPart(response.parts[idx])
    /\ out' = PrintSegment(out, response.parts[idx].text)
    /\ spoke' = (spoke \/ out' # out)
    /\ text' = AppendText(text, response.parts[idx].text)
    /\ idx' = idx + 1
    /\ UNCHANGED << prog, pc, rounds, response, callResults, pending, sent, returned,
                    outcome, counters, userInput, harness, history >>

\* else if (part.functionCall): await executeFunction(part.functionCall),
\* up to the await of useApi inside the handler.
PartCall ==
    /\ prog = "chat"
    /\ AtPart
    /\ IsCallPart(response.parts[idx])
    /\ LET fc == response.parts[idx].functionCall
           r  == executeFunction(fc, ApiThrows)
       IN /\ unknownOnly' = (unknownOnly /\ fc.name \notin DeclaredNames)
          /\ dispatchRounds' = IF Len(callResults) = 0 THEN dispatchRounds + 1
                                                       ELSE dispatchRounds
          /\ IF r.threw
             THEN /\ CatchInStartChat
                  /\ UNCHANGED << idx, callResults, pending, handlerCalls, queries >>
             ELSE IF r.handler = "none"
             THEN /\ callResults' = Append(callResults, [call |-> fc, result |-> r.result])
                  /\ idx' = idx + 1
                  /\ UNCHANGED << pc, pending, handlerCalls, queries, out, outcome,
                                  returned, sent, spoke >>
             ELSE /\ pending' = fc
                  /\ handlerCalls' = Counted(handlerCalls)
                  /\ queries' = Counted(queries)
                  /\ pc' = "api"
                  /\ UNCHANGED << idx, callResults, out, outcome, returned, sent, spoke >>
    /\ UNCHANGED << prog, rounds, response, text, classes, requests, userInput,
                    harness, history >>

\* useApi settles; the handler returns and callResults.push records it.
ApiReturn(api) ==
    /\ prog = "chat"
    /\ pc = "api"
    /\ callResults' = Append(callResults,
                             [call |-> pending, result |-> executeFunction(pending, api).result])
    /\ pending' = NoCall
    /\ idx' = idx + 1
    /\ pc' = "parts"
    /\ UNCHANGED << prog, rounds, response, text, sent, out, returned, outcome,
                    counters, spoke, userInput, harness, history >>

\* A part that is neither: the for loop moves on.
PartSkip ==
    /\ prog = "chat"
    /\ AtPart
    /\ ~IsTextPart(response.parts[idx])
    /\ ~IsCallPart(response.parts[idx])
    /\ idx' = idx + 1
    /\ UNCHANGED << prog, pc, rounds, response, callResults, text, pending, sent, out,
                    returned, outcome, counters, spoke, userInput, harness, history >>

AlwaysSends(crs) == TRUE

\* if (callResults.length > 0)
HasResults(crs) == Len(crs) > 0

\* After the for loop: send the results, or return the text, or return.
AfterParts ==
    /\ prog = "chat"
    /\ pc = "parts"
    /\ idx > Len(response.parts)
    /\ IF HasResults(callResults)
       THEN /\ sent' = FunctionResponses(callResults)
            /\ requests' = requests + 1
            /\ pc' = "sendResults"
            /\ UNCHANGED << out, returned, outcome >>
       ELSE /\ returned' = ReturnValue(text)
            /\ outcome' = IF Len(text) > 0 THEN "answer" ELSE "silent"
            /\ pc' = "prompt"
            /\ UNCHANGED << out, sent, requests >>
    /\ idx' = 0
    /\ callResults' = <<>>
    /\ text' = <<>>
    /\ UNCHANGED << prog, rounds, response, pending, classes, dispatchRounds,
                    handlerCalls, queries, unknownOnly, spoke, userInput, harness, history >>

-----------------------------------------------------------------------------
(* One executeFunction call on its own.                                    *)

DispatchChat(api) ==
    /\ prog = "dispatch"
    /\ pc = "dispatch"
    /\ dapi' = api
    /\ dres' = executeFunction(pending, api)
    /\ pc' = "dispatchedChat"
    /\ UNCHANGED << prog, locals, sent, out, returned, outcome, counters, spoke, userInput,
                    history, handlerIO, runs >>

DispatchHistory(api) ==
    /\ prog = "dispatch"
    /\ pc = "dispatch"
    /\ dapi' = api
    /\ dres' = executeFunctionH(pending, api)
    /\ pc' = "dispatchedHistory"
    /\ UNCHANGED << prog, locals, sent, out, returned, outcome, counters, spoke, userInput,
                    history, handlerIO, runs >>

-----------------------------------------------------------------------------
(* One handler call on its own.                                            *)

SearchBlockchain(api) ==
    /\ prog = "search"
    /\ pc = "call"
    /\ dapi' = api
    /\ result' = searchBlockchain(arg, data, api)
    /\ pc' = "returned"
    /\ UNCHANGED << prog, locals, sent, out, returned, outcome, counters, spoke, userInput,
                    history, dres, arg, data, runs >>

GetLatestBlocks(api) ==
    /\ prog = "blocks"
    /\ pc = "call"
    /\ dapi' = api
    /\ result' = getLatestBlocks(arg, data, api)
    /\ pc' = "returned"
    /\ UNCHANGED << prog, locals, sent, out, returned, outcome, counters, spoke, userInput,
                    history, dres, arg, data, runs >>

-----------------------------------------------------------------------------
(* What one process does from one await to the next.                       *)

\* rl.question resolves: exit, or the try block up to the first
\* chat.sendMessage of runChat.
ReadLine(enabled, st, line) ==
    LET o == debug(enabled, <<>>, "User input received", FALSE) IN
    IF toLowerCase(line) = "exit"
    THEN [st EXCEPT
            !.console = debug(enabled,
                              debug(enabled, Append(o, GoodbyeLine),
                                    "User requested exit", FALSE),
                              "Chat session ended", FALSE),
            !.returned = NoReturn,
            !.pc = "exited"]
    ELSE [st EXCEPT
            !.console = debug(enabled,
                              debug(enabled, Append(o, ThinkingLine),
                                    "Starting AI processing", FALSE),
                              "Starting runChat", TRUE),
            !.returned = NoReturn,
            !.sent = UserMessage(line),
            !.pc = "sendInitial"]

\* The catch block of startChat.
CatchError(enabled, st) ==
    [st EXCEPT
        !.console = Append(debug(enabled, @, "Error in chat loop", TRUE), ErrorLine),
        !.returned = NoReturn,
        !.sent = NoMessage,
        !.pending = NoCall,
        !.pc = "prompt"]

\* Below the while loop of runChat.
FallOutOfLoop(enabled, st) ==
    [st EXCEPT
        !.console = Append(debug(enabled, @, "Reached maximum rounds", FALSE), NoticeLine),
        !.returned = NoReturn,
        !.pc = "prompt"]

\* After the for loop of one iteration.
AfterForLoop(enabled, st) ==
    IF HasResults(st.callResults)
    THEN [st EXCEPT
            !.sent = FunctionResponses(st.callResults),
            !.idx = 0, !.callResults = <<>>, !.text = <<>>,
            !.pc = "sendResults"]
    ELSE [st EXCEPT
            !.console = IF Len(st.text) > 0 THEN @
                        ELSE debug(enabled, @, "No text found", FALSE),
            !.returned = ReturnValue(st.text),
            !.idx = 0, !.callResults = <<>>, !.text = <<>>,
            !.pc = "prompt"]

\* The for loop over candidate.content.parts from part st.idx on, up to
\* the await of useApi inside a handler or to the end of the iteration.
RECURSIVE ForLoop(_, _)
ForLoop(enabled, st) ==
    IF st.idx > Len(st.response.parts) THEN AfterForLoop(enabled, st)
    ELSE
        LET part == st.response.parts[st.idx] IN
        IF IsTextPart(part)
        THEN ForLoop(enabled, [st EXCEPT !.console = PrintSegment(@, part.text),
                                         !.text = AppendText(@, part.text),
                                         !.idx = @ + 1])
        ELSE IF IsCallPart(part)
        THEN LET fc == part.functionCall
                 r  == executeFunction(fc, ApiThrows)
                 o  == debug(enabled,
                             debug(enabled, st.console, "executeFunction called", TRUE),
                             "Executing function", fc.args.present)
             IN  IF r.threw THEN CatchError(enabled, [st EXCEPT !.console = o])
                 ELSE IF r.handler = "none"
                 THEN ForLoop(enabled,
                        [st EXCEPT
                            !.console = debug(enabled,
                                              debug(enabled, o, "Unknown function called", FALSE),
                                              "Function completed", TRUE),
                            !.callResults = Append(@, [call |-> fc, result |-> r.result]),
                            !.idx = @ + 1])
                 ELSE [st EXCEPT
                            !.console = debug(enabled,
                                              debug(enabled, o, "handler called", FALSE),
                                              "Making API call", FALSE),
                            !.pending = fc,
                            !.pc = "api"]
        ELSE ForLoop(enabled, [st EXCEPT !.idx = @ + 1])

\* The while loop of runChat, entered with the response st.response.
WhileLoop(enabled, st) ==
    IF LoopCondition(st.rounds)
    THEN IF ~st.response.hasCandidate
         THEN FallOutOfLoop(enabled,
                [st EXCEPT !.rounds = @ + 1,
                           !.console = debug(enabled, @, "No candidate found", FALSE)])
         ELSE ForLoop(enabled,
                [st EXCEPT !.rounds = @ + 1, !.idx = 1,
                           !.callResults = <<>>, !.text = <<>>])
    ELSE FallOutOfLoop(enabled, st)

\* chat.sendMessage resolves with resp.
Resolve(enabled, st, resp) ==
    IF st.pc = "sendInitial"
    THEN WhileLoop(enabled,
            [st EXCEPT
                !.response = resp,
                !.sent = NoMessage,
                !.rounds = InitialRounds(@),
                !.console = debug(enabled,
                                  debug(enabled, <<>>, "Initial response received", TRUE),
                                  "Starting function calling loop", FALSE)])
    ELSE WhileLoop(enabled, [st EXCEPT !.response = resp, !.sent = NoMessage,
                                       !.console = <<>>])

\* chat.sendMessage rejects.
Reject(enabled, st) == CatchError(enabled, [st EXCEPT !.console = <<>>])

\* useApi settles inside the handler of st.pending; the handler and
\* executeFunction return, callResults.push records the result and the
\* for loop goes on.
HandlerReturns(enabled, st, api) ==
    LET o == IF api.throws
             THEN debug(enabled, <<>>, "Error in handler", TRUE)
             ELSE IF api.status # StatusOk
             THEN debug(enabled,
                        debug(enabled, <<>>, "API response received", TRUE),
                        "API error", FALSE)
             ELSE debug(enabled,
                        debug(enabled,
                              debug(enabled, <<>>, "API response received", TRUE),
                              "Raw API data", TRUE),
                        "Processed result", TRUE)
    IN  ForLoop(enabled,
            [st EXCEPT
                !.console = debug(enabled, o, "Function completed", TRUE),
                !.callResults = Append(@, [call   |-> st.pending,
                                           result |-> executeFunction(st.pending, api).result]),
                !.pending = NoCall,
                !.idx = @ + 1,
                !.pc = "parts"])

-----------------------------------------------------------------------------
(* Two processes, one with DEBUG and one without, given the same lines and *)
(* the same replies.  A process takes an input only where it awaits it.    *)

oneRun == << prog, pc, locals, sent, out, returned, outcome, counters, spoke, userInput,
             history, dapi, dres, handlerIO >>

Awaits(place) == \E enabled \in BOOLEAN : runs[enabled].pc \in place

BothReadLine(line) ==
    /\ prog = "debug"
    /\ Awaits({"prompt"})
    /\ runs' = [enabled \in BOOLEAN |->
                  IF runs[enabled].pc = "prompt"
                  THEN ReadLine(enabled, runs[enabled], line)
                  ELSE runs[enabled]]
    /\ UNCHANGED oneRun

BothModelRespond(resp) ==
    /\ prog = "debug"
    /\ Awaits({"sendInitial", "sendResults"})
    /\ runs' = [enabled \in BOOLEAN |->
                  IF runs[enabled].pc \in {"sendInitial", "sendResults"}
                  THEN Resolve(enabled, runs[enabled], resp)
                  ELSE runs[enabled]]
    /\ UNCHANGED oneRun

BothModelFail ==
    /\ prog = "debug"
    /\ Awaits({"sendInitial", "sendResults"})
    /\ runs' = [enabled \in BOOLEAN |->
                  IF runs[enabled].pc \in {"sendInitial", "sendResults"}
                  THEN Reject(enabled, runs[enabled])
                  ELSE runs[enabled]]
    /\ UNCHANGED oneRun

BothApiReturn(api) ==
    /\ prog = "debug"
    /\ Awaits({"api"})
    /\ runs' = [enabled \in BOOLEAN |->
                  IF runs[enabled].pc = "api"
                  THEN HandlerReturns(enabled, runs[enabled], api)
                  ELSE runs[enabled]]
    /\ UNCHANGED oneRun

-----------------------------------------------------------------------------
(* startChat of the stateless-history variant.                             *)

CatchAndRollBack(o) ==
    /\ out' = Append(o, ErrorLine)
    /\ spoke' = TRUE
    /\ erred' = TRUE
    /\ outcome' = "error"
    /\ sent' = NoMessage
    /\ chatHistory' = SubSeq(chatHistory, 1, Len(chatHistory) - 1)
    /\ pc' = "prompt"

\* The catch block of startChat, o being what the turn has printed: an
\* error line; chatHistory keeps what the turn pushed before the exception.
CatchInHistory(o) ==
    /\ out' = Append(o, ErrorLine)
    /\ spoke' = TRUE
    /\ erred' = TRUE
    /\ outcome' = "error"
    /\ sent' = NoMessage
    /\ chatHistory' = chatHistory
    /\ pc' = "prompt"

\* Print assistantMessage, push it, trim the history.
Finish(o, msg) ==
    /\ out' = Append(o, AssistantLine(msg))
    /\ spoke' = TRUE
    /\ chatHistory' = TrimHistory(Append(chatHistory, ModelTextEntry(msg)))
    /\ outcome' = "answer"
    /\ pc' = "prompt"

\* rl.question resolves with a line: exit, or push the user entry and make
\* the first generateContent request.
HistoryUserInput(line) ==
    /\ prog = "history"
    /\ AwaitingInput
    /\ turns < MaxTurns
    /\ turns' = turns + 1
    /\ userInput' = line
    /\ spoke' = FALSE
    /\ response' = NoCandidate
    /\ idx' = 0
    /\ callResults' = <<>>
    /\ pending' = NoCall
    /\ handlerCalls' = 0
    /\ queries' = 0
    /\ IF toLowerCase(line) = "exit"
       THEN /\ out' = <<GoodbyeLine>>
            /\ sent' = NoMessage
            /\ requests' = 0
            /\ pc' = "exited"
            /\ UNCHANGED chatHistory
       ELSE /\ out' = <<ThinkingLine>>
            /\ chatHistory' = Append(chatHistory, UserEntry(line))
            /\ sent' = Contents(chatHistory')
            /\ requests' = 1
            /\ pc' = "generate"
    /\ UNCHANGED << prog, rounds, text, returned, outcome, classes, dispatchRounds,
                    unknownOnly, erred, harness >>

\* The first generateContent resolves: tool calls start the for loop over
\* them, anything else is the assistant message.
HistoryRespond ==
    /\ prog = "history"
    /\ pc = "generate"
    /\ response' \in HistoryResponses
    /\ userInput' = Undefined
    /\ sent' = NoMessage
    /\ IF Len(functionCalls(response')) > 0
       THEN /\ idx' = 1
            /\ out' = <<>>
            /\ outcome' = "none"
            /\ pc' = "calls"
            /\ UNCHANGED << spoke, chatHistory >>
       ELSE /\ Finish(<<>>, AssistantMessage(response'))
            /\ UNCHANGED idx
    /\ UNCHANGED << prog, rounds, callResults, text, pending, returned, counters,
                    turns, erred, harness >>

\* A generateContent request rejects.
HistoryFail ==
    /\ prog = "history"
    /\ pc \in {"generate", "generateFinal"}
    /\ CatchInHistory(out)
    /\ userInput' = Undefined
    /\ UNCHANGED << prog, locals, returned, counters, turns, harness >>

\* for (const functionCall of response.functionCalls): print, await
\* executeFunction up to the await of useApi inside the handler.
HistoryCall ==
    /\ prog = "history"
    /\ pc = "calls"
    /\ idx <= Len(functionCalls(response))
    /\ LET fc == functionCalls(response)[idx]
           r  == executeFunctionH(fc, ApiThrows)
       IN IF r.threw
          THEN /\ CatchInHistory(Append(out, ExecutingLine(fc.name)))
               /\ UNCHANGED << idx, callResults, pending, handlerCalls, queries >>
          ELSE IF r.handler = "none"
          THEN /\ out' = Append(out, ExecutingLine(fc.name))
               /\ callResults' = Append(callResults, FunctionResult(fc, r.result))
               /\ idx' = idx + 1
               /\ UNCHANGED << pc, pending, handlerCalls, queries, outcome, spoke,
                               sent, history >>
          ELSE /\ out' = Append(out, ExecutingLine(fc.name))
               /\ pending' = fc
               /\ handlerCalls' = Counted(handlerCalls)
               /\ queries' = Counted(queries)
               /\ pc' = "useApi"
               /\ UNCHANGED << idx, callResults, outcome, spoke, sent, history >>
    /\ UNCHANGED << prog, rounds, response, text, returned, classes, requests,
                    dispatchRounds, unknownOnly, userInput, turns, harness >>

\* useApi settles; the handler returns and functionResults.push records it.
HistoryApiReturn(api) ==
    /\ prog = "history"
    /\ pc = "useApi"
    /\ callResults' = Append(callResults,
                             FunctionResult(pending, executeFunctionH(pending, api).result))
    /\ pending' = NoCall
    /\ idx' = idx + 1
    /\ pc' = "calls"
    /\ UNCHANGED << prog, rounds, response, text, sent, out, returned, outcome,
                    counters, spoke, userInput, history, harness >>

\* After the for loop: push the model's calls and their results, and make
\* the second generateContent request.
HistoryAfterCalls ==
    /\ prog = "history"
    /\ pc = "calls"
    /\ idx > Len(functionCalls(response))
    /\ chatHistory' = chatHistory \o << ModelCallsEntry(functionCalls(response)),
                                        ResultsEntry(callResults) >>
    /\ sent' = Contents(chatHistory')
    /\ requests' = requests + 1
    /\ idx' = 0
    /\ callResults' = <<>>
    /\ pc' = "generateFinal"
    /\ UNCHANGED << prog, rounds, response, text, pending, out, returned, outcome,
                    classes, dispatchRounds, handlerCalls, queries, unknownOnly,
                    spoke, userInput, turns, erred, harness >>

\* The second generateContent resolves: its text, if any, is the assistant
\* message.
HistoryFinalRespond ==
    /\ prog = "history"
    /\ pc = "generateFinal"
    /\ response' \in HistoryResponses
    /\ sent' = NoMessage
    /\ Finish(<<>>, AssistantMessage(response'))
    /\ UNCHANGED << prog, rounds, idx, callResults, text, pending, returned, counters,
                    userInput, turns, erred, harness >>

-----------------------------------------------------------------------------

TurnStep ==
    \/ ModelRespond
    \/ ModelFail
    \/ LoopHead
    \/ PartText
    \/ PartCall
    \/ \E api \in ApiOutcomes : ApiReturn(api)
    \/ PartSkip
    \/ AfterParts

Next ==
    \/ \E line \in Lines : UserInput(line)
    \/ TurnStep
    \/ \E api \in ApiOutcomes : DispatchChat(api)
    \/ \E api \in ApiOutcomes : DispatchHistory(api)
    \/ \E api \in ApiOutcomes : SearchBlockchain(api)
    \/ \E api \in ApiOutcomes : GetLatestBlocks(api)
    \/ \E line \in Lines : BothReadLine(line)
    \/ \E resp \in DebugResponses : BothModelRespond(resp)
    \/ BothModelFail
    \/ \E api \in ApiOutcomes : BothApiReturn(api)
    \/ \E line \in Lines : HistoryUserInput(line)
    \/ HistoryRespond
    \/ HistoryFail
    \/ HistoryCall
    \/ \E api \in ApiOutcomes : HistoryApiReturn(api)
    \/ HistoryAfterCalls
    \/ HistoryFinalRespond

Spec == Init /\ [][Next]_vars

\* Every model request and every data-service query settles, and the
\* single thread of control runs whenever it can.
FairSpec == Spec /\ WF_vars(TurnStep)

-----------------------------------------------------------------------------
(* Properties of runChat and executeFunction.                              *)

\* A user turn of the chat-session variant has ended (not by the exit line).
TurnEnded == prog = "chat" /\ pc = "prompt" /\ outcome # "none"

InTurn == prog = "chat" /\ pc \in {"sendInitial", "sendResults", "loop", "parts", "api"}

\* Every response received so far in this turn contained a tool call.
OnlyToolCallResponses == \A i \in DOMAIN classes : classes[i] = "calls"

LastClass == classes[Len(classes)]

\* The tool calls of a response, in order.
CallParts(resp) == SelectSeq(resp.parts, IsCallPart)

\* C1: when every model response of a user turn contains a tool call,
\* runChat never starts a 6th dispatch round, and the turn (unless a model
\* request fails) ends after exactly 5 dispatch rounds and 6 model requests
\* with the notice printed and nothing returned.
C1_AlwaysToolCallsExhaustsBudget ==
    (prog = "chat" /\ OnlyToolCallResponses) =>
        /\ dispatchRounds <= 5
        /\ (TurnEnded /\ outcome # "error") =>
               /\ dispatchRounds = 5
               /\ requests = 6
               /\ outcome = "notice"
               /\ out = <<NoticeLine>>
               /\ ~returned.defined

C1_Witness ==
    /\ TurnEnded
    /\ Len(classes) = 6
    /\ OnlyToolCallResponses
    /\ outcome = "notice"
    /\ dispatchRounds = 5

C3_TextResponseIsReturned ==
    (TurnEnded /\ outcome # "error" /\ Len(classes) > 0 /\ LastClass = "text") =>
        /\ outcome = "answer"
        /\ returned = ReturnText(ConcatText(response.parts))

\* C4: a first response of only non-empty text is returned as is, after a
\* single model request, with no executeFunction call and no handler run.
C4_TextOnFirstResponse ==
    (prog = "chat" /\ classes = <<"text">>) =>
        /\ requests = 1
        /\ dispatchRounds = 0
        /\ handlerCalls = 0
        /\ queries = 0
        /\ pc \notin {"api", "sendResults"}
        /\ TurnEnded =>
               /\ outcome = "answer"
               /\ returned = ReturnText(ConcatText(response.parts))

C4_Witness ==
    /\ TurnEnded
    /\ classes = <<"text">>
    /\ returned = ReturnText(<<"a", "b">>)

\* C5: for k in 1..4, k responses with tool calls followed by a text-only
\* response end the turn with that text after exactly k dispatch rounds and
\* k + 1 model requests.
C5_TextAfterKRounds ==
    \A k \in 1..4 :
        ( /\ TurnEnded
          /\ Len(classes) = k + 1
          /\ \A i \in 1..k : classes[i] = "calls"
          /\ classes[k + 1] = "text" ) =>
            /\ outcome = "answer"
            /\ returned = ReturnText(ConcatText(response.parts))
            /\ dispatchRounds = k
            /\ requests = k + 1

C5_Witness ==
    /\ TurnEnded
    /\ Len(classes) = 5
    /\ LastClass = "text"
    /\ outcome = "answer"
    /\ dispatchRounds = 4

\* C6: a tool name outside the 8 declared names gets the unknown-function
\* result naming it from executeFunction of both variants, with no throw and
\* no handler run; a turn whose only dispatched calls were such calls and
\* whose second response is text ends with that text after 1 round and 0
\* handler invocations.
C6_UnknownToolIsAnErrorResult ==
    /\ ( /\ prog = "dispatch"
         /\ pc \in {"dispatchedChat", "dispatchedHistory"}
         /\ pending.name \notin DeclaredNames ) =>
            /\ ~dres.threw
            /\ dres.result = UnknownResult(pending.name)
            /\ dres.handler = "none"
            /\ dres.queries = 0
    /\ (prog = "chat" /\ unknownOnly) =>
            /\ handlerCalls = 0
            /\ queries = 0
            /\ outcome = "error" => idx = 0
    /\ (TurnEnded /\ unknownOnly /\ classes = <<"calls", "text">>) =>
            /\ outcome = "answer"
            /\ returned = ReturnText(ConcatText(response.parts))
            /\ dispatchRounds = 1

C6_Witness ==
    /\ TurnEnded
    /\ unknownOnly
    /\ classes = <<"calls", "text">>
    /\ outcome = "answer"
    /\ dispatchRounds = 1
    /\ handlerCalls = 0

\* The call under dispatch names a declared tool and lacks one of the
\* parameters its declaration requires.
OmitsRequired(fc) ==
    /\ fc.name \in DeclaredNames
    /\ ~(Declaration(fc.name).required \subseteq fc.args.keys)

\* C7: a call to a declared tool that omits a required parameter yields an
\* invalid-arguments error result and runs no handler (no query is made).
C7_MissingRequiredIsRejected ==
    (prog = "dispatch" /\ pc = "dispatchedChat" /\ OmitsRequired(pending)) =>
        /\ ~dres.threw
        /\ dres.result.kind = "invalidArguments"
        /\ dres.handler = "none"
        /\ dres.queries = 0

\* C8: executeFunction of the chat-session variant returns a value for
\* every request and every data-service outcome; when the query throws or
\* returns a non-200 status the value is an error description.
C8_ChatDispatchNeverThrows ==
    (prog = "dispatch" /\ pc = "dispatchedChat") =>
        /\ ~dres.threw
        /\ dres.result.kind \in {"unknown", "caught", "status", "data"}
        /\ (dres.handler # "none" /\ (dapi.throws \/ dapi.status # 200)) =>
               IsErrorResult(dres.result)

C8_Witness ==
    /\ prog = "dispatch"
    /\ pc = "dispatchedChat"
    /\ pending.name = "getAddressTransactions"
    /\ ~pending.args.present
    /\ dapi = ApiStatus(StatusRateLimited)
    /\ dres = Returned(StatusResult("getAddressTransactions", StatusRateLimited),
                       "getAddressTransactions", 1)

\* C9: executeFunction of the stateless-history variant returns a value
\* for every request, also for a declared tool with parameters whose request
\* carries no arguments mapping.
C9_HistoryDispatchNeverThrows ==
    (prog = "dispatch" /\ pc = "dispatchedHistory") => ~dres.threw

\* C10: the message runChat sends after a round holds one result per tool
\* call of the response, in order, each under its call's name, the error
\* result included for an unknown name or a failed handler; no exception
\* leaves the loop over the parts.
C10_FailingCallDoesNotAbortRound ==
    /\ (prog = "chat" /\ pc = "sendResults") =>
          /\ sent.kind = "functionResponses"
          /\ Len(sent.parts) = Len(CallParts(response))
          /\ \A i \in DOMAIN sent.parts :
                /\ sent.parts[i].name = CallParts(response)[i].functionCall.name
                /\ sent.parts[i].result.kind \in {"unknown", "caught", "status", "data"}
                /\ sent.parts[i].name \notin DeclaredNames =>
                       sent.parts[i].result = UnknownResult(sent.parts[i].name)
    /\ (prog = "chat" /\ outcome = "error") => idx = 0

C10_Witness ==
    /\ prog = "chat"
    /\ pc = "sendResults"
    /\ Len(sent.parts) = 2
    /\ sent.parts[1].result.kind = "caught"
    /\ sent.parts[2].result.kind = "data"

-----------------------------------------------------------------------------
(* Properties of the front end, the round loop and chatHistory.            *)

InProgram == prog \in {"chat", "history"}

\* C11: in the stateless-history variant, trimming chatHistory to its last
\* 40 entries never separates a model tool-call entry from its tool-result
\* entry: every result entry directly follows a tool-call entry and every
\* tool-call entry is directly followed by a result entry.
C11_TrimKeepsPairsTogether ==
    prog = "history" =>
        \A i \in DOMAIN chatHistory :
            /\ chatHistory[i].kind = "functionResponse" =>
                   (i > 1 /\ chatHistory[i - 1].kind = "functionCall")
            /\ chatHistory[i].kind = "functionCall" =>
                   (i < Len(chatHistory) /\ chatHistory[i + 1].kind = "functionResponse")

\* C12: in both variants a model request that fails ends its turn at the
\* prompt with the error line printed last, nothing in flight; the process
\* ends on the exit line only, and the line read after a failed turn starts
\* a turn like any other.
C12_ModelFailureIsCaught ==
    InProgram =>
        /\ (pc = "prompt" /\ outcome = "error") =>
               /\ Len(out) > 0
               /\ out[Len(out)] = ErrorLine
               /\ sent = NoMessage
               /\ pending = NoCall
        /\ pc = "exited" => (userInput \in Lines /\ out = <<GoodbyeLine>>)
        /\ (pc \in {"sendInitial", "generate"} /\ outcome = "error") =>
               /\ out = <<ThinkingLine>>
               /\ requests = 1
               /\ sent.kind \in {"user", "contents"}

C12_Witness ==
    /\ prog = "history"
    /\ pc = "prompt"
    /\ outcome = "answer"
    /\ \E i \in DOMAIN chatHistory :
          /\ i + 2 = Len(chatHistory)
          /\ chatHistory[i].kind = "functionResponse"
          /\ chatHistory[i + 1].role = "user"
          /\ chatHistory[i + 1].kind = "text"

\* C13: every user turn of the chat-session variant other than exit has
\* printed an assistant text, the notice or an error line by the time it
\* ends, whatever the model responded.
C13_TurnEndsWithPrintedOutcome ==
    TurnEnded => spoke

\* C14: the notice is printed only by a turn that returns nothing; a turn
\* that receives 6 responses without failing prints it; a turn that returns
\* a value returns non-empty text and prints no notice.
C14_NoticeDistinctFromAnswer ==
    prog = "chat" =>
        /\ (\E i \in DOMAIN out : out[i] = NoticeLine) =>
               /\ TurnEnded
               /\ outcome = "notice"
               /\ ~returned.defined
        /\ (TurnEnded /\ Len(classes) = MaxRounds + 1 /\ outcome # "error") =>
               /\ out = <<NoticeLine>>
               /\ ~returned.defined
        /\ returned.defined =>
               /\ TurnEnded
               /\ outcome = "answer"
               /\ Len(returned.text) > 0
               /\ \A i \in DOMAIN out : out[i] # NoticeLine

C14_Witness ==
    /\ TurnEnded
    /\ rounds = MaxRounds
    /\ Len(classes) = MaxRounds + 1
    /\ out = <<NoticeLine>>
    /\ ~returned.defined

\* Number of tool calls among the first n parts of a response.
CallsBefore(resp, n) == Len(CallParts(Candidate(SubSeq(resp.parts, 1, n))))

\* C15: within a round the tool calls are dispatched one at a time in the
\* order of the response, no model request is in flight while they are,
\* and the message sent afterwards holds every call's result in that order.
C15_RoundsAreSequential ==
    (prog = "chat" /\ pc \in {"parts", "api", "sendResults"}) =>
        /\ pc \in {"parts", "api"} =>
               /\ sent = NoMessage
               /\ Len(callResults) = CallsBefore(response, idx - 1)
               /\ \A i \in DOMAIN callResults :
                      callResults[i].call = CallParts(response)[i].functionCall
        /\ pc = "api" => pending = response.parts[idx].functionCall
        /\ pc # "api" => pending = NoCall
        /\ pc = "sendResults" =>
               /\ Len(sent.parts) = Len(CallParts(response))
               /\ \A i \in DOMAIN sent.parts :
                      /\ sent.parts[i].name = CallParts(response)[i].functionCall.name
                      /\ sent.parts[i].id = CallParts(response)[i].functionCall.id

C15_Witness ==
    /\ prog = "chat"
    /\ pc = "sendResults"
    /\ Len(sent.parts) = 2
    /\ sent.parts[1].name = "getBalance"
    /\ sent.parts[1].id = "id1"
    /\ sent.parts[2].name = "getLatestBlocks"

\* The assistant lines of the text segments among parts, in order.
SegmentLines(ps) ==
    LET ts == SelectSeq(ps, IsTextPart)
    IN [i \in DOMAIN ts |-> AssistantLine(ts[i].text)]

\* C16: when a tool call of a response is dispatched, every non-empty text
\* segment that precedes it in the response has been printed; the round
\* then sends the results, and a turn returns only on a response without
\* tool calls.
C16_TextPrintedBeforeLaterCalls ==
    prog = "chat" =>
        /\ pc \in {"parts", "api"} =>
               out = SegmentLines(SubSeq(response.parts, 1,
                                         IF pc = "api" THEN idx ELSE idx - 1))
        /\ pc = "sendResults" =>
               /\ HasCalls(response)
               /\ out = SegmentLines(response.parts)
        /\ (TurnEnded /\ outcome \in {"answer", "silent"}) => ~HasCalls(response)

C16_Witness ==
    /\ prog = "chat"
    /\ pc = "sendResults"
    /\ response.parts = << TextPart(<<"a">>),
                           CallPart(Call("getLatestBlocks", NoArgs, Undefined)) >>
    /\ out = <<AssistantLine(<<"a">>)>>

\* The lines that equal 'exit' in some letter case.
ExitWords == {"exit", "EXIT", "Exit"}

\* C17: in both variants the process exits exactly on a line equal to
\* 'exit' in some letter case, having made no model request, and takes no
\* step afterwards; any other line, the empty one and ' exit' included, is
\* what the first request of its turn carries.
C17_ExitOnlyOnExitWord ==
    /\ [](InProgram =>
            /\ pc = "exited" =>
                   /\ userInput \in ExitWords
                   /\ requests = 0
                   /\ sent = NoMessage
            /\ pc = "sendInitial" =>
                   /\ userInput \in Lines \ ExitWords
                   /\ sent = UserMessage(userInput)
            /\ pc = "generate" =>
                   /\ userInput \in Lines \ ExitWords
                   /\ sent = Contents(chatHistory)
                   /\ chatHistory[Len(chatHistory)] = UserEntry(userInput))
    /\ [][pc # "exited"]_vars

C17_Witness ==
    /\ prog = "history"
    /\ pc = "generate"
    /\ userInput = " exit"
    /\ sent.parts[Len(sent.parts)] = UserEntry(" exit")

\* C18: rounds counts the loop iterations of the current user turn only:
\* the first response of every turn finds it at 0, however the previous
\* turn ended, and the notice for a response with a candidate is printed
\* only after 5 iterations of this turn.
C18_BudgetIsPerTurn ==
    /\ [](prog = "chat" =>
            /\ pc = "loop" => rounds = Len(classes) - 1
            /\ pc \in {"parts", "api", "sendResults"} => rounds = Len(classes)
            /\ (TurnEnded /\ outcome = "notice" /\ response.hasCandidate) =>
                   Len(classes) = MaxRounds + 1)
    /\ [][(prog = "chat" /\ pc = "sendInitial" /\ pc' = "loop") => rounds' = 0]_vars

C18_Witness ==
    /\ prog = "chat"
    /\ pc = "sendInitial"
    /\ outcome = "notice"
    /\ rounds = MaxRounds

\* C19: a turn of the stateless-history variant ends with an assistant
\* message only when the latest response holds no tool call: the tool calls
\* of every response, the one to the first batch of results included, are
\* dispatched.
C19_HistoryDispatchesEveryCall ==
    (prog = "history" /\ pc = "prompt" /\ outcome = "answer") =>
        Len(functionCalls(response)) = 0

\* C20: in both variants a line is read only at the prompt, with no model
\* request and no tool call in flight and the previous turn, if any, ended
\* by an answer, a return, the notice or an error line.
C20_InputOnlyBetweenTurns ==
    [][(InProgram /\ userInput' \in Lines) =>
          /\ pc = "prompt"
          /\ sent = NoMessage
          /\ pending = NoCall
          /\ idx = 0 \/ outcome = "error"
          /\ \/ requests = 0 /\ outcome = "none"
             \/ outcome \in {"answer", "silent", "notice", "error"}]_vars

C20_Witness ==
    /\ prog = "chat"
    /\ pc = "sendInitial"
    /\ outcome = "answer"
    /\ rounds = 2

-----------------------------------------------------------------------------
(* Properties of the results message, the history and the registry.        *)

\* C21: the message runChat sends after a round holds exactly one result
\* per tool call dispatched in the round; the i-th result carries the name
\* and the id of the i-th call (no id where the call has none) and a value
\* executeFunction returns for that call.
C21_ResultsMatchCalls ==
    (prog = "chat" /\ pc = "sendResults") =>
        LET calls == CallParts(response)
        IN /\ Len(sent.parts) = Len(calls)
           /\ \A i \in DOMAIN sent.parts :
                 /\ sent.parts[i].name = calls[i].functionCall.name
                 /\ sent.parts[i].id = calls[i].functionCall.id
                 /\ sent.parts[i].result \in
                        { executeFunction(calls[i].functionCall, api).result :
                              api \in ApiOutcomes }

C21_Witness ==
    /\ prog = "chat"
    /\ pc = "sendResults"
    /\ Len(sent.parts) = 2
    /\ sent.parts[1] = [name |-> "getLatestBlocks", id |-> Undefined,
                        result |-> StatusResult("getLatestBlocks", StatusRateLimited)]
    /\ sent.parts[2] = [name |-> "getBalance", id |-> "id1",
                        result |-> UnknownResult("getBalance")]

\* C22: every generateContent request of the stateless-history variant
\* carries the whole chatHistory in order; the first request of a turn is
\* the history before the turn followed by the new user entry, the second
\* adds the model entry echoing the tool calls and then the entry with
\* their results, in call order.
C22_RequestCarriesWholeHistory ==
    /\ [](prog = "history" =>
            /\ pc = "generate" =>
                   /\ sent.kind = "contents"
                   /\ sent.parts = chatHistory
                   /\ chatHistory[Len(chatHistory)] = UserEntry(userInput)
            /\ pc = "generateFinal" =>
                   LET n   == Len(chatHistory)
                       fcs == functionCalls(response)
                   IN /\ sent.kind = "contents"
                      /\ sent.parts = chatHistory
                      /\ n >= 3
                      /\ chatHistory[n - 2].role = "user"
                      /\ chatHistory[n - 2].kind = "text"
                      /\ chatHistory[n - 1] = ModelCallsEntry(fcs)
                      /\ chatHistory[n].role = "user"
                      /\ chatHistory[n].kind = "functionResponse"
                      /\ Len(chatHistory[n].parts) = Len(fcs)
                      /\ \A i \in DOMAIN fcs :
                            /\ chatHistory[n].parts[i].name = fcs[i].name
                            /\ chatHistory[n].parts[i].result \in
                                   { Stringify(executeFunctionH(fcs[i], api).result) :
                                         api \in ApiOutcomes })
    /\ [][(prog = "history" /\ pc = "prompt" /\ pc' = "generate") =>
              sent'.parts = Append(chatHistory, UserEntry(userInput'))]_vars
    /\ [][(prog = "history" /\ pc = "calls" /\ pc' = "generateFinal") =>
              /\ Len(sent'.parts) = Len(chatHistory) + 2
              /\ SubSeq(sent'.parts, 1, Len(chatHistory)) = chatHistory]_vars

C22_Witness ==
    /\ prog = "history"
    /\ pc = "generateFinal"
    /\ Len(sent.parts) = HistoryLimit + 3
    /\ sent.parts[HistoryLimit + 3].parts[1].name = "getBalance"
    /\ sent.parts[HistoryLimit + 3].parts[2].name = "getAddressInfo"

\* C23: executeFunction of the chat-session variant makes exactly one
\* data-service query for a declared tool, whether the query succeeds,
\* throws or returns a non-200 status, and none for any other name.
C23_OneQueryPerDispatch ==
    /\ (prog = "dispatch" /\ pc = "dispatchedChat") =>
          /\ pending.name \in DeclaredNames => dres.queries = 1
          /\ pending.name \notin DeclaredNames => dres.queries = 0
    /\ prog = "chat" => queries = handlerCalls

C23_Witness ==
    /\ prog = "dispatch"
    /\ pc = "dispatchedChat"
    /\ pending.name = "getNetworkStats"
    /\ dapi = ApiThrows
    /\ dres.result = CaughtResult
    /\ dres.queries = 1

\* The last n entries of h, in order.
LastEntries(h, n) == [i \in 1..n |-> h[Len(h) - n + i]]

\* C24: when a turn of the stateless-history variant completes, the
\* history it leaves is the history with the assistant message pushed if
\* that has at most 40 entries, and exactly its last 40 entries in the same
\* order otherwise.
C24_TrimKeepsLastForty ==
    [][(prog = "history" /\ pc \in {"generate", "generateFinal"}
            /\ pc' = "prompt" /\ outcome' = "answer") =>
          LET before == Append(chatHistory, ModelTextEntry(AssistantMessage(response')))
          IN IF Len(before) <= 40
             THEN chatHistory' = before
             ELSE chatHistory' = LastEntries(before, 40)]_vars

C24_Witness ==
    /\ prog = "history"
    /\ pc = "prompt"
    /\ outcome = "answer"
    /\ turns = 1
    /\ Len(chatHistory) = 40
    /\ chatHistory[1].kind = "functionResponse"
    /\ chatHistory[39] = UserEntry(" exit")
    /\ chatHistory[40] = ModelTextEntry(NoResponseGenerated)

\* C25: whenever runChat prints the notice, exactly 5 tool-dispatch rounds
\* were performed in that user turn.
C25_NoticeOnlyAfterFiveRounds ==
    (prog = "chat" /\ \E i \in DOMAIN out : out[i] = NoticeLine) => dispatchRounds = 5

\* C26: whenever the stateless-history variant awaits a line, chatHistory
\* holds at most 40 entries, also after turns that ended in the catch block.
C26_HistoryBoundedAtPrompt ==
    (prog = "history" /\ pc = "prompt") => Len(chatHistory) <= 40

\* C27: in runChat the model requests of a turn number the dispatch rounds
\* plus one (a round counting once its results are sent), at most 6; a turn
\* that makes 6 requests without a failure ends with the notice, the 6th
\* response left uninspected.
C27_RequestsAreRoundsPlusOne ==
    prog = "chat" =>
        /\ requests <= 6
        /\ (pc \in {"sendInitial", "sendResults", "loop"} \/ TurnEnded) =>
               requests = dispatchRounds + 1
        /\ pc \in {"parts", "api"} =>
               requests = IF pc = "api" \/ Len(callResults) > 0
                          THEN dispatchRounds
                          ELSE dispatchRounds + 1
        /\ (TurnEnded /\ requests = 6 /\ outcome # "error") =>
               /\ outcome = "notice"
               /\ dispatchRounds = 5
               /\ idx = 0
               /\ text = <<>>
               /\ out = <<NoticeLine>>

C27_Witness ==
    /\ TurnEnded
    /\ requests = 6
    /\ outcome = "notice"
    /\ response = Candidate(<<TextPart(<<"a">>)>>)
    /\ out = <<NoticeLine>>

\* C28: a turn of the stateless-history variant that ends in the catch
\* block leaves chatHistory as it was when the exception was thrown: the
\* user entry, and after a failed second request also the tool-call and
\* result entries, with no model text entry after them and no trim; the
\* next turn's request carries them.
C28_ErrorTurnIsNotRolledBack ==
    /\ [](prog = "history" =>
            /\ (pc = "prompt" /\ outcome = "error") =>
                   LET n == Len(chatHistory)
                   IN /\ n > 0
                      /\ chatHistory[n].role = "user"
                      /\ chatHistory[n].kind = "functionResponse" =>
                             /\ n >= 3
                             /\ chatHistory[n - 1].kind = "functionCall"
                             /\ chatHistory[n - 2].role = "user"
                             /\ chatHistory[n - 2].kind = "text"
            /\ (pc = "generate" /\ outcome = "error") =>
                   /\ sent.parts = chatHistory
                   /\ Len(chatHistory) >= 2
                   /\ chatHistory[Len(chatHistory) - 1].role = "user")
    /\ [][(prog = "history" /\ pc \in {"generate", "calls", "generateFinal"}
               /\ pc' = "prompt" /\ outcome' = "error") =>
              chatHistory' = chatHistory]_vars

C28_Witness ==
    /\ prog = "history"
    /\ pc = "generate"
    /\ outcome = "error"
    /\ Len(chatHistory) = HistoryLimit + 4
    /\ chatHistory[HistoryLimit + 3].kind = "functionResponse"
    /\ chatHistory[HistoryLimit + 2].kind = "functionCall"
    /\ sent.parts = chatHistory

\* Entries alternate user-role and model-role, starting with user-role.
Alternates(h) ==
    \A i \in DOMAIN h : h[i].role = IF i % 2 = 1 THEN "user" ELSE "model"

\* C29: in the stateless-history variant, while no turn has ended in the
\* catch block, the history alternates user-role and model-role entries
\* starting with a user-role entry; at the prompt its length is even and
\* its last entry is a model text entry, a completed turn having pushed 2
\* entries (one request) or 4 (two requests), also when the history was
\* trimmed.
C29_ErrorFreeHistoryAlternates ==
    (prog = "history" /\ ~erred) =>
        LET n == Len(chatHistory)
        IN /\ Alternates(chatHistory)
           /\ pc = "prompt" =>
                  /\ n % 2 = 0
                  /\ n > 0 => (chatHistory[n].role = "model" /\ chatHistory[n].kind = "text")
           /\ pc \in {"generate", "calls", "useApi"} =>
                  /\ n % 2 = 1
                  /\ chatHistory[n].kind = "text"
           /\ pc = "generateFinal" =>
                  /\ n % 2 = 1
                  /\ chatHistory[n].kind = "functionResponse"
                  /\ chatHistory[n - 1].kind = "functionCall"
                  /\ chatHistory[n - 2].kind = "text"
           /\ (pc = "prompt" /\ outcome = "answer" /\ requests = 1) =>
                  /\ chatHistory[n - 1].role = "user"
                  /\ chatHistory[n - 1].kind = "text"
           /\ (pc = "prompt" /\ outcome = "answer" /\ requests = 2) =>
                  /\ chatHistory[n - 1].kind = "functionResponse"
                  /\ chatHistory[n - 2].kind = "functionCall"
                  /\ chatHistory[n - 3].role = "user"
                  /\ chatHistory[n - 3].kind = "text"

C29_Witness ==
    /\ prog = "history"
    /\ pc = "prompt"
    /\ ~erred
    /\ turns = 2
    /\ requests = 2
    /\ Len(chatHistory) = HistoryLimit
    /\ chatHistory[1].kind = "functionResponse"

\* C30: the 8 declared tool names are pairwise distinct; executeFunction of
\* the chat-session variant runs, for a declared name, the handler of that
\* name and never answers unknown function, and answers unknown function
\* for every other name.
C30_RegistryMatchesDispatcher ==
    /\ Len(functionDeclarations) = 8
    /\ Cardinality(DeclaredNames) = 8
    /\ (prog = "dispatch" /\ pc = "dispatchedChat") =>
          /\ pending.name \in DeclaredNames =>
                 /\ dres.handler = pending.name
                 /\ dres.result.kind # "unknown"
                 /\ dres.result.kind \in {"data", "status"} =>
                        dres.result.tool = pending.name
          /\ pending.name \notin DeclaredNames =>
                 /\ dres.handler = "none"
                 /\ dres.result = UnknownResult(pending.name)

C30_Witness ==
    /\ prog = "dispatch"
    /\ pc = "dispatchedChat"
    /\ pending.name = "getAddressTokenBalances"
    /\ dapi = ApiStatus(StatusOk)
    /\ dres.handler = "getAddressTokenBalances"
    /\ dres.result.kind = "data"

\* C31: a successful search over n items reports resultsCount = n,
\* displayedResults = min(n, 10), the first min(n, 10) items in service
\* order and truncated exactly when n > 10; resolvedAddress is non-null
\* only for a query ending with ".eth", and is then the address of the
\* first displayed ens_domain or address item that carries an address.
C31_SearchReportsCountsAndResolution ==
    (prog = "search" /\ pc = "returned" /\ dapi = ApiStatus(StatusOk)) =>
        LET items    == IF data.present THEN data.items ELSE <<>>
            n        == Len(items)
            shown    == IF n < 10 THEN n ELSE 10
            eligible == { i \in 1..shown :
                            /\ items[i].type \in {"ens_domain", "address"}
                            /\ items[i].address_hash # "" \/ items[i].address # "" }
            first    == items[Min(eligible)]
        IN  /\ result.kind = "search"
            /\ result.resultsCount = n
            /\ result.displayedResults = shown
            /\ Len(result.results) = shown
            /\ \A i \in 1..shown :
                /\ result.results[i].type = items[i].type
                /\ result.results[i].address =
                      (IF items[i].address_hash # "" THEN items[i].address_hash
                       ELSE items[i].address)
            /\ result.truncated <=> n > 10
            /\ result.resolvedAddress # Null => endsWith(arg, DotEth)
            /\ endsWith(arg, DotEth) =>
                  result.resolvedAddress =
                      (IF eligible = {} THEN Null
                       ELSE IF first.address_hash # "" THEN first.address_hash
                       ELSE first.address)

\* Twelve items came back for a query ending with ".eth"; ten are shown,
\* and the tenth, the first ens_domain item, gives the resolved address.
C31_Witness ==
    /\ prog = "search"
    /\ pc = "returned"
    /\ dapi = ApiStatus(StatusOk)
    /\ endsWith(arg, DotEth)
    /\ data.present
    /\ Len(data.items) = 12
    /\ data.items[1].type = "token"
    /\ data.items[10] = Item("ens_domain", "0xH", "0xA")
    /\ data.items[11] = Item("address", "", "0xB")
    /\ result.resultsCount = 12
    /\ result.displayedResults = 10
    /\ result.truncated
    /\ result.resolvedAddress = "0xH"

\* C32: for every count (absent, zero, negative, above 50) and every
\* number n of blocks of the data service, getLatestBlocks returns the
\* first min(count, n) blocks in service order, count being 5 when absent,
\* and never more than 50 records.
C32_ReturnsFirstCountBlocksAtMostFifty ==
    (prog = "blocks" /\ pc = "returned" /\ dapi = ApiStatus(StatusOk)) =>
        LET items == IF data.present THEN data.items ELSE <<>>
            n     == Len(items)
            count == IF arg.present THEN arg.value ELSE 5
            least == IF count < n THEN count ELSE n
            kept  == IF least < 0 THEN 0 ELSE least
        IN  /\ result.kind = "blocks"
            /\ Len(result.records) = kept
            /\ \A i \in 1..kept : result.records[i].number = items[i].height
            /\ Len(result.records) <= 50

\* What a process shows to the model, the data service and the user:
\* where it waits, the model request and the tool dispatch in flight, the
\* lines it printed other than debug lines, and what runChat returned.
Observable(st) ==
    [pc       |-> st.pc,
     sent     |-> st.sent,
     pending  |-> st.pending,
     lines    |-> SelectSeq(st.console, LAMBDA l : l.tag \notin {"debug", "debugData"}),
     returned |-> st.returned]

\* C33: verbose tracing does not change behaviour: given the same lines,
\* model responses and data-service replies, the process with DEBUG and the
\* one without issue the same model requests and tool dispatches, print the
\* same non-debug lines and return the same result.
C33_DebugDoesNotChangeBehaviour ==
    prog = "debug" => Observable(runs[TRUE]) = Observable(runs[FALSE])

\* Both processes printed an assistant text and dispatched an undeclared
\* tool; the one with DEBUG printed debug lines around them, and both wait
\* for the model's reply to the same function responses.
C33_Witness ==
    /\ prog = "debug"
    /\ runs[TRUE].pc = "sendResults"
    /\ runs[TRUE].sent.kind = "functionResponses"
    /\ runs[FALSE].console = <<AssistantLine(<<"a">>)>>
    /\ Len(runs[TRUE].console) > 1
    /\ runs[TRUE].console[1] = AssistantLine(<<"a">>)
    /\ \E i \in DOMAIN runs[TRUE].console : runs[TRUE].console[i].tag = "debugData"

====
